---------------------------- MODULE Spec2Model ----------------------------
(***************************************************************************)
(* EEPROM-containers: persistent_queue<T> and persistent_vector<T>.        *)
(*                                                                         *)
(* Each container is a handle (capacity_, storage_) over a region of the   *)
(* EEPROM.  The region holds a header (signature, and begin/end/size for   *)
(* the queue, size for the vector) followed by the slot array data().      *)
(* The region outlives the handle: constructing a handle again over the    *)
(* same offset models a restart of the sketch.                             *)
(*                                                                         *)
(* The model keeps one queue region and one vector region; a sketch        *)
(* declares one container and constructs its handle over that region at    *)
(* every start.  The fields of storage_area are the variables              *)
(* q_signature .. q_data and v_signature .. v_data; q_capacity and         *)
(* v_capacity are the handles' capacity_ members.  History variables       *)
(* (q_model, v_model, pushed_ok, popped_ok, call) record what the caller   *)
(* has observed; no operation of the containers reads them.                *)
(***************************************************************************)
EXTENDS Integers, Sequences, FiniteSets

(***************************************************************************)
(* Bounds of the model.                                                    *)
(***************************************************************************)
\* Largest capacity a handle is constructed with.
MaxCap == 3
\* Number of successful pushes, pops and push_backs followed (the history
\* counters and sequences are unbounded in the program).
MaxOps == 5
\* Width, in bits, of the model's unsigned / size_t words.
WordBits == 3

UMod == 2 ^ WordBits
Word == 0 .. (UMod - 1)
Capacities == 0 .. MaxCap
SlotIndex == 0 .. (MaxCap - 1)

\* Element values (value_type); two values tell any two orders apart.
Values == {"x", "y"}

\* static constexpr unsigned SIGNATURE { 0xa2bedef9 };
SIGNATURE == "0xa2bedef9"
\* Signature words a region can hold: the magic, erased flash, zeroed.
SigValues == {SIGNATURE, "0xffffffff", "0x00000000"}

VARIABLES
  q_signature, q_begin, q_end, q_size, q_data,   \* queue storage_area
  q_capacity, q_mounted,                         \* queue handle
  v_signature, v_size, v_data,                   \* vector storage_area
  v_capacity, v_mounted,                         \* vector handle
  q_model, v_model,                              \* abstract contents
  pushed_ok, popped_ok,                          \* queue calls that returned true
  call,                                          \* the last call and its result
  sketch                                         \* the container the sketch declares

q_region == <<q_signature, q_begin, q_end, q_size, q_data>>
v_region == <<v_signature, v_size, v_data>>
q_handle == <<q_capacity, q_mounted>>
v_handle == <<v_capacity, v_mounted>>
q_hist == <<q_model, pushed_ok, popped_ok>>
vars == <<q_region, q_handle, v_region, v_handle, q_hist, v_model, call, sketch>>

Call(op, arg, ret) == [op |-> op, arg |-> arg, ret |-> ret]
NoArg == "-"

(***************************************************************************)
(* Unsigned arithmetic.                                                    *)
(***************************************************************************)
Inc(x) == (x + 1) % UMod
Dec(x) == (x + UMod - 1) % UMod


(***************************************************************************)
(* Slot access through storage_area::data().  The model keeps MaxCap slots *)
(* per region; a read past them yields bytes the model does not track and  *)
(* a write past them leaves the tracked slots alone.                       *)
(***************************************************************************)
Beyond == "?"
Load(data, i) == IF i \in DOMAIN data THEN data[i] ELSE Beyond
Store(data, i, value) == [data EXCEPT ![i] = value]

(***************************************************************************)
(* persistent_queue<T>                                                     *)
(***************************************************************************)
q_size_fn == q_size
q_capacity_fn == q_capacity
q_empty == q_size_fn = 0
\* Variant of full(): compares with > where the source compares with ==.
q_full_gt == q_size_fn > q_capacity_fn
q_full == q_size_fn = q_capacity_fn
q_front == Load(q_data, q_begin)

\* Variant of increment(): the wrap to 0 is left out.
increment_nowrap(idx) == Inc(idx)
\* Variant of increment(): tests idx before incrementing it (idx++ == capacity_).
increment_late(idx) == IF idx = q_capacity THEN 0 ELSE Inc(idx)
\* void increment(unsigned& idx) const: the value idx has afterwards.
increment(idx) == IF Inc(idx) = q_capacity THEN 0 ELSE Inc(idx)

\* Variant of the constructor: the initializing branch does not reset size.
QMount_keep_size(capacity) ==
  /\ q_capacity' = capacity
  /\ q_mounted' = TRUE
  /\ IF q_signature # SIGNATURE
       THEN /\ q_signature' = SIGNATURE
            /\ q_begin' = 0
            /\ q_end' = 0
            /\ UNCHANGED <<q_size, q_data>>
            /\ q_model' = << >>
            /\ pushed_ok' = 0
            /\ popped_ok' = 0
       ELSE UNCHANGED <<q_region, q_hist>>
  /\ call' = Call("q_mount", NoArg, TRUE)
  /\ UNCHANGED <<v_region, v_handle, v_model, sketch>>

\* Variant of the constructor: initializes without testing the signature.
QMount_always(capacity) ==
  /\ q_capacity' = capacity
  /\ q_mounted' = TRUE
  /\ q_signature' = SIGNATURE
  /\ q_begin' = 0
  /\ q_end' = 0
  /\ q_size' = 0
  /\ UNCHANGED <<q_data, q_hist>>
  /\ call' = Call("q_mount", NoArg, TRUE)
  /\ UNCHANGED <<v_region, v_handle, v_model, sketch>>

\* Variant of the constructor: the initializing branch does not write the
\* signature.
QMount_no_signature(capacity) ==
  /\ q_capacity' = capacity
  /\ q_mounted' = TRUE
  /\ IF q_signature # SIGNATURE
       THEN /\ q_begin' = 0
            /\ q_end' = 0
            /\ q_size' = 0
            /\ UNCHANGED <<q_signature, q_data>>
            /\ q_model' = << >>
            /\ pushed_ok' = 0
            /\ popped_ok' = 0
       ELSE UNCHANGED <<q_region, q_hist>>
  /\ call' = Call("q_mount", NoArg, TRUE)
  /\ UNCHANGED <<v_region, v_handle, v_model, sketch>>

\* persistent_queue(int offset, size_type capacity)
QMount(capacity) ==
  /\ q_capacity' = capacity
  /\ q_mounted' = TRUE
  /\ IF q_signature # SIGNATURE
       THEN /\ q_signature' = SIGNATURE
            /\ q_begin' = 0
            /\ q_end' = 0
            /\ q_size' = 0
            /\ UNCHANGED q_data
            /\ q_model' = << >>
            /\ pushed_ok' = 0
            /\ popped_ok' = 0
       ELSE UNCHANGED <<q_region, q_hist>>
  /\ call' = Call("q_mount", NoArg, TRUE)
  /\ UNCHANGED <<v_region, v_handle, v_model, sketch>>

\* Variant of push(): the full() test is left out.
QPush_unchecked(value) ==
  /\ q_mounted
  /\ pushed_ok < MaxOps
  /\ q_data' = Store(q_data, q_end, value)
  /\ q_end' = increment(q_end)
  /\ q_size' = Inc(q_size)
  /\ UNCHANGED <<q_signature, q_begin>>
  /\ q_model' = Append(q_model, value)
  /\ pushed_ok' = pushed_ok + 1
  /\ UNCHANGED popped_ok
  /\ call' = Call("push", value, TRUE)
  /\ UNCHANGED <<q_handle, v_region, v_handle, v_model, sketch>>

\* bool push(const value_type& value) / bool push(value_type&& value)
QPush(value) ==
  /\ q_mounted
  /\ IF q_full
       THEN /\ call' = Call("push", value, FALSE)
            /\ UNCHANGED <<q_region, q_hist>>
       ELSE /\ pushed_ok < MaxOps
            /\ q_data' = Store(q_data, q_end, value)
            /\ q_end' = increment(q_end)
            /\ q_size' = Inc(q_size)
            /\ UNCHANGED <<q_signature, q_begin>>
            /\ q_model' = Append(q_model, value)
            /\ pushed_ok' = pushed_ok + 1
            /\ UNCHANGED popped_ok
            /\ call' = Call("push", value, TRUE)
  /\ UNCHANGED <<q_handle, v_region, v_handle, v_model, sketch>>

\* Variant of pop(): the empty() test is left out.
QPop_unchecked ==
  /\ q_mounted
  /\ popped_ok < MaxOps
  /\ q_begin' = increment(q_begin)
  /\ q_size' = Dec(q_size)
  /\ UNCHANGED <<q_signature, q_end, q_data>>
  /\ q_model' = IF q_model = << >> THEN q_model ELSE Tail(q_model)
  /\ popped_ok' = popped_ok + 1
  /\ UNCHANGED pushed_ok
  /\ call' = Call("pop", NoArg, TRUE)
  /\ UNCHANGED <<q_handle, v_region, v_handle, v_model, sketch>>

\* Variant of pop(): advances begin but does not decrement size.
QPop_nodec ==
  /\ q_mounted
  /\ IF q_empty
       THEN /\ call' = Call("pop", NoArg, FALSE)
            /\ UNCHANGED <<q_region, q_hist>>
       ELSE /\ popped_ok < MaxOps
            /\ q_begin' = increment(q_begin)
            /\ UNCHANGED <<q_signature, q_end, q_size, q_data>>
            /\ q_model' = Tail(q_model)
            /\ popped_ok' = popped_ok + 1
            /\ UNCHANGED pushed_ok
            /\ call' = Call("pop", NoArg, TRUE)
  /\ UNCHANGED <<q_handle, v_region, v_handle, v_model, sketch>>

\* Variant of pop(): overwrites the popped slot with a default value.
QPop_clear ==
  /\ q_mounted
  /\ IF q_empty
       THEN /\ call' = Call("pop", NoArg, FALSE)
            /\ UNCHANGED <<q_region, q_hist>>
       ELSE /\ q_data' = Store(q_data, q_begin, "x")
            /\ q_begin' = increment(q_begin)
            /\ q_size' = Dec(q_size)
            /\ UNCHANGED <<q_signature, q_end>>
            /\ q_model' = Tail(q_model)
            /\ popped_ok' = popped_ok + 1
            /\ UNCHANGED pushed_ok
            /\ call' = Call("pop", NoArg, TRUE)
  /\ UNCHANGED <<q_handle, v_region, v_handle, v_model, sketch>>

\* bool pop()
QPop ==
  /\ q_mounted
  /\ IF q_empty
       THEN /\ call' = Call("pop", NoArg, FALSE)
            /\ UNCHANGED <<q_region, q_hist>>
       ELSE /\ popped_ok < MaxOps
            /\ q_begin' = increment(q_begin)
            /\ q_size' = Dec(q_size)
            /\ UNCHANGED <<q_signature, q_end, q_data>>
            /\ q_model' = IF q_model = << >> THEN q_model ELSE Tail(q_model)
            /\ popped_ok' = popped_ok + 1
            /\ UNCHANGED pushed_ok
            /\ call' = Call("pop", NoArg, TRUE)
  /\ UNCHANGED <<q_handle, v_region, v_handle, v_model, sketch>>

(***************************************************************************)
(* persistent_vector<T>                                                    *)
(***************************************************************************)
v_size_fn == v_size
v_capacity_fn == v_capacity
v_empty == v_size_fn = 0
\* Variant of full(): reports full one element early.
v_full_early == v_size_fn + 1 = v_capacity_fn
v_full == v_size_fn = v_capacity_fn
\* reference operator[](size_type pos)
v_at(pos) == Load(v_data, pos)

\* persistent_vector(int offset, size_type capacity)
VMount(capacity) ==
  /\ v_capacity' = capacity
  /\ v_mounted' = TRUE
  /\ IF v_signature # SIGNATURE
       THEN /\ v_signature' = SIGNATURE
            /\ v_size' = 0
            /\ UNCHANGED v_data
            /\ v_model' = << >>
       ELSE UNCHANGED <<v_region, v_model>>
  /\ call' = Call("v_mount", NoArg, TRUE)
  /\ UNCHANGED <<q_region, q_handle, q_hist, sketch>>

\* Variant of push_back(): increments size before storing the value.
VPushBack_preinc(value) ==
  /\ v_mounted
  /\ IF v_full
       THEN /\ call' = Call("push_back", value, FALSE)
            /\ UNCHANGED <<v_region, v_model>>
       ELSE /\ v_size' = Inc(v_size)
            /\ v_data' = Store(v_data, Inc(v_size), value)
            /\ UNCHANGED v_signature
            /\ v_model' = Append(v_model, value)
            /\ call' = Call("push_back", value, TRUE)
  /\ UNCHANGED <<v_handle, q_region, q_handle, q_hist, sketch>>

\* bool push_back(const value_type& value) / bool push_back(value_type&& value)
VPushBack(value) ==
  /\ v_mounted
  /\ IF v_full
       THEN /\ call' = Call("push_back", value, FALSE)
            /\ UNCHANGED <<v_region, v_model>>
       ELSE /\ Len(v_model) < MaxOps
            /\ v_data' = Store(v_data, v_size, value)
            /\ v_size' = Inc(v_size)
            /\ UNCHANGED v_signature
            /\ v_model' = Append(v_model, value)
            /\ call' = Call("push_back", value, TRUE)
  /\ UNCHANGED <<v_handle, q_region, q_handle, q_hist, sketch>>

\* bool pop_back()
VPopBack ==
  /\ v_mounted
  /\ IF v_empty
       THEN /\ call' = Call("pop_back", NoArg, FALSE)
            /\ UNCHANGED <<v_region, v_model>>
       ELSE /\ v_size' = Dec(v_size)
            /\ UNCHANGED <<v_signature, v_data>>
            /\ v_model' = SubSeq(v_model, 1, Len(v_model) - 1)
            /\ call' = Call("pop_back", NoArg, TRUE)
  /\ UNCHANGED <<v_handle, q_region, q_handle, q_hist, sketch>>

(***************************************************************************)
(* Initial states: the EEPROM before the sketch constructs any handle.     *)
(* The region holds whatever was there; its signature is not the magic.    *)
(* q_capacity / v_capacity hold the capacity the sketch is compiled with   *)
(* and passes to the constructor on every start.                           *)
(***************************************************************************)
QueueGarbage ==
  /\ q_signature \in SigValues \ {SIGNATURE}
  /\ q_begin \in Word
  /\ q_end \in Word
  /\ q_size \in Word
  /\ q_data \in [SlotIndex -> Values]
  /\ q_capacity \in Capacities
  /\ q_mounted = FALSE

VectorGarbage ==
  /\ v_signature \in SigValues \ {SIGNATURE}
  /\ v_size \in Word
  /\ v_data \in [SlotIndex -> Values]
  /\ v_capacity \in Capacities
  /\ v_mounted = FALSE

\* A region the sketch never constructs a handle over (erased flash).
QueueUnused ==
  /\ q_signature = "0xffffffff"
  /\ q_begin = UMod - 1
  /\ q_end = UMod - 1
  /\ q_size = UMod - 1
  /\ q_data = [i \in SlotIndex |-> "x"]
  /\ q_capacity = 0
  /\ q_mounted = FALSE

VectorUnused ==
  /\ v_signature = "0xffffffff"
  /\ v_size = UMod - 1
  /\ v_data = [i \in SlotIndex |-> "x"]
  /\ v_capacity = 0
  /\ v_mounted = FALSE

HistInit ==
  /\ q_model = << >>
  /\ v_model = << >>
  /\ pushed_ok = 0
  /\ popped_ok = 0
  /\ call = Call("none", NoArg, FALSE)

Init ==
  /\ sketch \in {"queue", "vector"}
  /\ IF sketch = "queue" THEN QueueGarbage /\ VectorUnused
                         ELSE QueueUnused /\ VectorGarbage
  /\ HistInit

\* loop() of the sketch: any call on the container it declares; a restart
\* constructs the handle again with the same capacity.
Next ==
  \/ sketch = "queue" /\ QMount(q_capacity)
  \/ sketch = "queue" /\ \E value \in Values : QPush(value)
  \/ sketch = "queue" /\ QPop
  \/ sketch = "vector" /\ VMount(v_capacity)
  \/ sketch = "vector" /\ \E value \in Values : VPushBack(value)
  \/ sketch = "vector" /\ VPopBack

Spec == Init /\ [][Next]_vars

(***************************************************************************)
(* A region with any initial bytes: the signature word may already be the  *)
(* magic constant (bytes left by another container, or by chance), and the *)
(* constructor then takes the header words as they are.                    *)
(***************************************************************************)
\* Header words of a region whose signature already matches.
LeftoverWords == {0, UMod - 1}

QueueLeftover ==
  /\ q_signature = SIGNATURE
  /\ q_begin \in LeftoverWords
  /\ q_end \in LeftoverWords
  /\ q_size \in LeftoverWords
  /\ q_data \in [SlotIndex -> Values]
  /\ q_capacity \in Capacities
  /\ q_mounted = FALSE

VectorLeftover ==
  /\ v_signature = SIGNATURE
  /\ v_size \in LeftoverWords
  /\ v_data \in [SlotIndex -> Values]
  /\ v_capacity \in Capacities
  /\ v_mounted = FALSE

QueueAnyBytes == QueueGarbage \/ QueueLeftover
VectorAnyBytes == VectorGarbage \/ VectorLeftover

InitAny ==
  /\ sketch \in {"queue", "vector"}
  /\ IF sketch = "queue" THEN QueueAnyBytes /\ VectorUnused
                         ELSE QueueUnused /\ VectorAnyBytes
  /\ HistInit

SpecAny == InitAny /\ [][Next]_vars

(***************************************************************************)
(* A sketch that is rebuilt with another capacity between two starts: the  *)
(* constructor takes whatever capacity it is given and never compares it   *)
(* with the one the region was filled under.                               *)
(***************************************************************************)
NextRemount ==
  \/ sketch = "queue" /\ \E capacity \in Capacities : QMount(capacity)
  \/ sketch = "queue" /\ \E value \in Values : QPush(value)
  \/ sketch = "queue" /\ QPop
  \/ sketch = "vector" /\ \E capacity \in Capacities : VMount(capacity)
  \/ sketch = "vector" /\ \E value \in Values : VPushBack(value)
  \/ sketch = "vector" /\ VPopBack

SpecRemount == Init /\ [][NextRemount]_vars

(***************************************************************************)
(* Power loss inside an operation.  The writes of an operation reach the   *)
(* region one at a time, in program order; power can be lost between any   *)
(* two of them.  Nothing else runs in between, so each action below is the *)
(* operation up to the write named, followed by the loss of the handle;    *)
(* the next start constructs the handle again.  pop_back has a single      *)
(* write and so no such point.                                             *)
(***************************************************************************)
\* push(): power lost after the slot write (line 114), before the end update.
QPushCutSlot(value) ==
  /\ q_mounted
  /\ ~q_full
  /\ q_data' = Store(q_data, q_end, value)
  /\ UNCHANGED <<q_signature, q_begin, q_end, q_size>>
  /\ q_mounted' = FALSE
  /\ call' = Call("push_cut_slot", value, FALSE)
  /\ UNCHANGED <<q_capacity, q_hist, v_region, v_handle, v_model, sketch>>

\* push(): power lost after the end update (line 115), before the size update.
QPushCutEnd(value) ==
  /\ q_mounted
  /\ ~q_full
  /\ q_data' = Store(q_data, q_end, value)
  /\ q_end' = increment(q_end)
  /\ UNCHANGED <<q_signature, q_begin, q_size>>
  /\ q_mounted' = FALSE
  /\ call' = Call("push_cut_end", value, FALSE)
  /\ UNCHANGED <<q_capacity, q_hist, v_region, v_handle, v_model, sketch>>

\* pop(): power lost after the begin update (line 147), before the size update.
QPopCutBegin ==
  /\ q_mounted
  /\ ~q_empty
  /\ q_begin' = increment(q_begin)
  /\ UNCHANGED <<q_signature, q_end, q_size, q_data>>
  /\ q_mounted' = FALSE
  /\ call' = Call("pop_cut_begin", NoArg, FALSE)
  /\ UNCHANGED <<q_capacity, q_hist, v_region, v_handle, v_model, sketch>>

\* Variant of push_back(): size is incremented before the slot is written, and
\* power is lost between the two.
VPushBackCut_size_first(value) ==
  /\ v_mounted
  /\ ~v_full
  /\ v_size' = Inc(v_size)
  /\ UNCHANGED <<v_signature, v_data>>
  /\ v_mounted' = FALSE
  /\ call' = Call("push_back_cut", value, FALSE)
  /\ UNCHANGED <<v_capacity, v_model, q_region, q_handle, q_hist, sketch>>

\* push_back(): power lost after the slot write (line 112), before the size
\* update.
VPushBackCut(value) ==
  /\ v_mounted
  /\ ~v_full
  /\ v_data' = Store(v_data, v_size, value)
  /\ UNCHANGED <<v_signature, v_size>>
  /\ v_mounted' = FALSE
  /\ call' = Call("push_back_cut", value, FALSE)
  /\ UNCHANGED <<v_capacity, v_model, q_region, q_handle, q_hist, sketch>>

NextCrash ==
  \/ sketch = "queue" /\ QMount(q_capacity)
  \/ sketch = "queue" /\ \E value \in Values : QPush(value)
  \/ sketch = "queue" /\ QPop
  \/ sketch = "queue" /\ \E value \in Values : QPushCutSlot(value)
  \/ sketch = "queue" /\ \E value \in Values : QPushCutEnd(value)
  \/ sketch = "queue" /\ QPopCutBegin
  \/ sketch = "vector" /\ VMount(v_capacity)
  \/ sketch = "vector" /\ \E value \in Values : VPushBack(value)
  \/ sketch = "vector" /\ VPopBack
  \/ sketch = "vector" /\ \E value \in Values : VPushBackCut(value)

SpecCrash == Init /\ [][NextCrash]_vars

(***************************************************************************)
(* Byte layout of the regions (ESP8266: unsigned and std::size_t are 4     *)
(* bytes wide).  Offsets are relative to the region's start,               *)
(* EEPROM.getDataPtr() + offset.  The header fields sit where the compiler *)
(* lays out storage_area (each member aligned to its size); the slots sit  *)
(* where data() computes them.                                             *)
(***************************************************************************)
SizeofUnsigned == 4
SizeofSizeT == 4
\* sizeof(value_type) of the instantiation.
SizeofValue == 2

AlignUp(n, a) == ((n + a - 1) \div a) * a
FieldBytes(off, width) == off .. (off + width - 1)

\* struct storage_area of persistent_queue
QOffsetSignature == 0
QOffsetBegin == AlignUp(QOffsetSignature + SizeofUnsigned, SizeofUnsigned)
QOffsetEnd == AlignUp(QOffsetBegin + SizeofUnsigned, SizeofUnsigned)
QOffsetSize == AlignUp(QOffsetEnd + SizeofUnsigned, SizeofSizeT)
QHeaderEnd == QOffsetSize + SizeofSizeT

\* Variant of storage_size(): the sizeof(storage_area::size) term is left out.
q_storage_size_nosize(capacity) ==
  SizeofUnsigned + SizeofUnsigned + SizeofUnsigned + capacity * SizeofValue
\* static constexpr size_type storage_size(size_type capacity)
q_storage_size(capacity) ==
  SizeofUnsigned + SizeofUnsigned + SizeofUnsigned + SizeofSizeT
    + capacity * SizeofValue
\* value_type* data(): offset of the first slot
q_data_offset == SizeofUnsigned + SizeofUnsigned + SizeofUnsigned + SizeofSizeT
\* &data()[i]
q_slot_offset(i) == q_data_offset + i * SizeofValue
QSlotBytes(i) == FieldBytes(q_slot_offset(i), SizeofValue)

\* struct storage_area of persistent_vector
VOffsetSignature == 0
VOffsetSize == AlignUp(VOffsetSignature + SizeofUnsigned, SizeofSizeT)
VHeaderEnd == VOffsetSize + SizeofSizeT

\* static constexpr size_type storage_size(size_type capacity)
v_storage_size(capacity) == SizeofUnsigned + SizeofSizeT + capacity * SizeofValue
\* value_type* data(): offset of the first slot
v_data_offset == SizeofUnsigned + SizeofSizeT
\* &data()[i]
v_slot_offset(i) == v_data_offset + i * SizeofValue
VSlotBytes(i) == FieldBytes(v_slot_offset(i), SizeofValue)

\* Bytes of the queue region whose field or slot has another value after the step.
QChangedBytes ==
  UNION {
    IF q_signature' # q_signature THEN FieldBytes(QOffsetSignature, SizeofUnsigned) ELSE {},
    IF q_begin' # q_begin THEN FieldBytes(QOffsetBegin, SizeofUnsigned) ELSE {},
    IF q_end' # q_end THEN FieldBytes(QOffsetEnd, SizeofUnsigned) ELSE {},
    IF q_size' # q_size THEN FieldBytes(QOffsetSize, SizeofSizeT) ELSE {},
    UNION {QSlotBytes(i) : i \in {j \in SlotIndex : q_data'[j] # q_data[j]}} }

\* Bytes of the vector region whose field or slot has another value after the step.
VChangedBytes ==
  UNION {
    IF v_signature' # v_signature THEN FieldBytes(VOffsetSignature, SizeofUnsigned) ELSE {},
    IF v_size' # v_size THEN FieldBytes(VOffsetSize, SizeofSizeT) ELSE {},
    UNION {VSlotBytes(i) : i \in {j \in SlotIndex : v_data'[j] # v_data[j]}} }

(***************************************************************************)
(* Abstraction: the logical contents of the containers.                    *)
(***************************************************************************)
\* The slot k places after begin in the circular range.
QSlot(k) == IF q_capacity = 0 THEN q_begin + k ELSE (q_begin + k) % q_capacity
\* The queue's elements, oldest first, as the header and the slots give them.
QContents == [i \in 1 .. q_size |-> Load(q_data, QSlot(i - 1))]
\* The vector's elements, as size and the slots give them.
VContents == [i \in 1 .. v_size |-> v_at(i - 1)]

\* The queue header satisfies the relations push and pop maintain.
QHeaderConsistent ==
  /\ q_capacity > 0
  /\ q_size <= q_capacity
  /\ q_begin < q_capacity
  /\ q_end < q_capacity
  /\ q_end = (q_begin + q_size) % q_capacity
\* The slots of the circular range of length size starting at begin.
QOccupied == {QSlot(k) : k \in 0 .. (q_size - 1)}

QueueLive == sketch = "queue" /\ q_mounted
VectorLive == sketch = "vector" /\ v_mounted

(***************************************************************************)
(* Properties.                                                             *)
(***************************************************************************)

\* C1: a queue of capacity > 0, initialized by its first mount, refines a
\* bounded FIFO sequence under any sequence of push and pop (index wraps
\* included): q_model is that sequence (push appends, pop removes the head);
\* size() is its length, the circular range starting at begin holds its
\* elements in order, and front() is its head whenever the queue is not empty.
C1_QueueFifoRefinement ==
  (QueueLive /\ q_capacity > 0) =>
    /\ q_size_fn = Len(q_model)
    /\ Len(q_model) <= q_capacity
    /\ QContents = q_model
    /\ (~q_empty => q_front = Head(q_model))

\* C1 witness: two different elements are queued and the occupied range
\* wraps past the last slot.
C1_Witness ==
  /\ QueueLive
  /\ q_capacity > 1
  /\ q_size = 2
  /\ q_end < q_begin
  /\ q_model[1] # q_model[2]
  /\ q_front = q_model[1]

\* C2: once mounted over a non-matching signature with capacity > 0, every
\* state reached by push, pop and remount with the same capacity has
\* size <= capacity, begin < capacity, end < capacity and
\* end = (begin + size) mod capacity.
C2_QueueHeaderInvariant ==
  (QueueLive /\ q_capacity > 0) =>
    /\ 0 <= q_size /\ q_size <= q_capacity
    /\ q_begin < q_capacity
    /\ q_end < q_capacity
    /\ q_end = (q_begin + q_size) % q_capacity

\* C2 witness: a full queue whose indices have wrapped has just been remounted.
C2_Witness ==
  /\ QueueLive
  /\ call.op = "q_mount"
  /\ q_capacity > 1
  /\ q_size = q_capacity
  /\ q_begin > 0
  /\ popped_ok >= q_capacity

\* C3: push on a full queue returns false and leaves signature, begin, end,
\* size and every slot as they were.
C3_PushFullNoChange ==
  [][(call'.op = "push" /\ q_full) =>
       (call'.ret = FALSE /\ UNCHANGED q_region)]_vars

\* C3 witness: a push has just been refused by a full queue of capacity > 0.
C3_Witness ==
  /\ QueueLive
  /\ call.op = "push"
  /\ call.ret = FALSE
  /\ q_capacity > 0
  /\ q_full

\* C4: pop on an empty queue returns false and leaves signature, begin, end,
\* size and every slot as they were; size stays 0 (it does not wrap to the
\* largest unsigned value).
C4_PopEmptyNoChange ==
  [][(call'.op = "pop" /\ q_empty) =>
       (call'.ret = FALSE /\ UNCHANGED q_region /\ q_size' = 0)]_vars

\* C4 witness: a pop has just been refused by a queue that held elements
\* before (begin has advanced).
C4_Witness ==
  /\ QueueLive
  /\ call.op = "pop"
  /\ call.ret = FALSE
  /\ q_empty
  /\ q_begin > 0

\* C5: a vector of capacity > 0, initialized by its first mount, refines a
\* bounded sequence under any sequence of push_back and pop_back: v_model is
\* that sequence; 0 <= size <= capacity, size is its length and operator[](i)
\* is its element i for every i < size.  A successful push_back(v) stores v at
\* index size and increments size; a successful pop_back decrements size by 1
\* and leaves the values at all remaining indices unchanged.
C5_VectorRefinement ==
  /\ [](VectorLive /\ v_capacity > 0 =>
          /\ 0 <= v_size_fn /\ v_size_fn <= v_capacity
          /\ v_size_fn = Len(v_model)
          /\ \A i \in 0 .. (v_size - 1) : v_at(i) = v_model[i + 1])
  /\ [][/\ (call'.op = "push_back" /\ call'.ret /\ v_capacity > 0) =>
             /\ v_size' = v_size + 1
             /\ Load(v_data', v_size) = call'.arg
             /\ \A i \in 0 .. (v_size - 1) : v_at(i)' = v_at(i)
        /\ (call'.op = "pop_back" /\ call'.ret /\ v_capacity > 0) =>
             /\ v_size' = v_size - 1
             /\ \A i \in 0 .. (v_size' - 1) : v_at(i)' = v_at(i)]_vars

\* C5 witness: after a pop_back the vector still holds two different
\* elements, the first of which was written over a slot that held the other
\* value.
C5_Witness ==
  /\ VectorLive
  /\ call.op = "pop_back"
  /\ call.ret
  /\ v_size = 2
  /\ v_at(0) = "y"
  /\ v_at(1) = "x"
  /\ v_model = <<"y", "x">>

\* C6: push_back returns false exactly when size == capacity, pop_back returns
\* false exactly when size == 0, and a call that returns false leaves
\* signature, size and every slot as they were.
C6_VectorRejected ==
  [][/\ call'.op = "push_back" => (call'.ret = FALSE <=> v_size = v_capacity)
     /\ call'.op = "pop_back" => (call'.ret = FALSE <=> v_size = 0)
     /\ (call'.op \in {"push_back", "pop_back"} /\ call'.ret = FALSE) =>
          UNCHANGED v_region]_vars

\* C6 witness: a push_back has just been refused by a full vector of
\* capacity > 1.
C6_Witness ==
  /\ VectorLive
  /\ call.op = "push_back"
  /\ call.ret = FALSE
  /\ v_capacity > 1
  /\ v_size = v_capacity

\* C7: a mount over a region whose signature is not the magic constant yields
\* an empty container whatever the header words and the slots held: after it
\* the signature is the magic constant, size() == 0 (queue: begin == 0 and
\* end == 0), empty() is true, and full() is false for every capacity > 0.
C7_MountFreshIsEmpty ==
  [][/\ (call'.op = "q_mount" /\ q_signature # SIGNATURE) =>
          /\ q_signature' = SIGNATURE
          /\ q_size_fn' = 0
          /\ q_begin' = 0
          /\ q_end' = 0
          /\ q_empty'
          /\ (q_capacity' > 0 => ~q_full')
     /\ (call'.op = "v_mount" /\ v_signature # SIGNATURE) =>
          /\ v_signature' = SIGNATURE
          /\ v_size_fn' = 0
          /\ v_empty'
          /\ (v_capacity' > 0 => ~v_full')]_vars

\* C7 witness: a queue has just been initialized by its mount; its slots
\* still hold what the region held before.
C7_Witness ==
  /\ QueueLive
  /\ call.op = "q_mount"
  /\ pushed_ok = 0
  /\ q_capacity > 0
  /\ q_signature = SIGNATURE
  /\ q_empty
  /\ Load(q_data, 0) = "y"

\* C8: a mount with the same capacity over an initialized region writes
\* nothing: signature, begin, end, size and every slot are as before, so the
\* new handle sees the same front() and the same elements in the same order;
\* the same holds of the vector, and of any further mount.
C8_RemountIdempotent ==
  [][/\ (call'.op = "q_mount" /\ q_signature = SIGNATURE) =>
          /\ UNCHANGED q_region
          /\ q_capacity' = q_capacity
          /\ q_size_fn' = q_size_fn
          /\ q_front' = q_front
          /\ QContents' = QContents
     /\ (call'.op = "v_mount" /\ v_signature = SIGNATURE) =>
          /\ UNCHANGED v_region
          /\ v_capacity' = v_capacity
          /\ v_size_fn' = v_size_fn
          /\ VContents' = VContents]_vars

\* C8 witness: a queue holding elements across the wrap point, neither
\* empty nor full, has just been remounted.
C8_Witness ==
  /\ QueueLive
  /\ call.op = "q_mount"
  /\ 0 < q_size
  /\ q_size < q_capacity
  /\ q_end < q_begin

\* C9: with capacity == 0, in every state after the initializing mount,
\* empty() and full() are both true, size() == 0, every push / push_back and
\* every pop / pop_back returns false, and no header index, size or slot is
\* written.
C9_ZeroCapacity ==
  /\ [](/\ (QueueLive /\ q_capacity = 0) =>
             /\ q_empty /\ q_full /\ q_size_fn = 0
             /\ (call.op \in {"push", "pop"} => call.ret = FALSE)
        /\ (VectorLive /\ v_capacity = 0) =>
             /\ v_empty /\ v_full /\ v_size_fn = 0
             /\ (call.op \in {"push_back", "pop_back"} => call.ret = FALSE))
  /\ [][/\ (QueueLive /\ q_capacity = 0) =>
             UNCHANGED <<q_begin, q_end, q_size, q_data>>
        /\ (VectorLive /\ v_capacity = 0) =>
             UNCHANGED <<v_size, v_data>>]_vars

\* C9 witness: a push has just been refused by a queue of capacity 0.
C9_Witness ==
  /\ QueueLive
  /\ q_capacity = 0
  /\ call.op = "push"
  /\ call.ret = FALSE
  /\ q_empty
  /\ q_full

\* C10: for a queue of capacity > 0, size() is the number of pushes that
\* returned true minus the number of pops that returned true; a push returns
\* true exactly when that number is below capacity, and when it equals
\* capacity full() is true.
C10_CapacityByCounting ==
  /\ [](QueueLive /\ q_capacity > 0 =>
          /\ q_size_fn = pushed_ok - popped_ok
          /\ (pushed_ok - popped_ok = q_capacity => q_full))
  /\ [][(call'.op = "push" /\ q_capacity > 0) =>
          (call'.ret <=> pushed_ok - popped_ok < q_capacity)]_vars

\* C10 witness: exactly capacity pushes returned true on a fresh queue, no
\* pop did, and the next push has just returned false.
C10_Witness ==
  /\ QueueLive
  /\ q_capacity > 1
  /\ pushed_ok = q_capacity
  /\ popped_ok = 0
  /\ q_full
  /\ call.op = "push"
  /\ call.ret = FALSE

\* C15: in every state of a queue of capacity > 0 reached from a fresh mount
\* by push and pop, begin == end holds exactly when the queue is empty or
\* full, empty() and full() are never both true, and with begin == end the
\* size is either 0 or capacity.
C15_EmptyFullDisambiguation ==
  (QueueLive /\ q_capacity > 0) =>
    /\ (q_begin = q_end) <=> (q_empty \/ q_full)
    /\ ~(q_empty /\ q_full)
    /\ (q_begin = q_end) => (q_size_fn = 0 \/ q_size_fn = q_capacity)

\* C15 witness: a full queue of capacity > 1 with begin == end away from
\* slot 0.
C15_Witness ==
  /\ QueueLive
  /\ q_capacity > 1
  /\ q_begin = q_end
  /\ q_begin > 0
  /\ q_full
  /\ ~q_empty

\* C16: for every capacity > 0 a successful push sets end to
\* (end + 1) mod capacity and a successful pop sets begin to
\* (begin + 1) mod capacity: capacity - 1 becomes 0 and the index stays below
\* capacity.
C16_WraparoundStep ==
  [][/\ (call'.op = "push" /\ call'.ret /\ q_capacity > 0 /\ q_end < q_capacity) =>
          /\ q_end' = (q_end + 1) % q_capacity
          /\ q_end' < q_capacity
          /\ (q_end = q_capacity - 1 => q_end' = 0)
     /\ (call'.op = "pop" /\ call'.ret /\ q_capacity > 0 /\ q_begin < q_capacity) =>
          /\ q_begin' = (q_begin + 1) % q_capacity
          /\ q_begin' < q_capacity
          /\ (q_begin = q_capacity - 1 => q_begin' = 0)]_vars

\* C16 witness: with capacity 3 (not a power of two) a push has just moved
\* end from 2 to 0.
C16_Witness ==
  /\ QueueLive
  /\ q_capacity = 3
  /\ call.op = "push"
  /\ call.ret
  /\ q_end = 0
  /\ pushed_ok = 3

\* C17: a successful pop leaves the signature, end and every slot (the popped
\* one included) unchanged and changes begin and size only; a successful
\* pop_back leaves the signature and every slot unchanged and changes size
\* only.
C17_PopFrame ==
  [][/\ (call'.op = "pop" /\ call'.ret) =>
          /\ UNCHANGED <<q_signature, q_end, q_data>>
          /\ Load(q_data', q_begin) = q_front
     /\ (call'.op = "pop_back" /\ call'.ret) =>
          /\ UNCHANGED <<v_signature, v_data>>
          /\ Load(v_data', v_size') = v_at(v_size - 1)]_vars

\* C17 witness: the only element, pushed into slot 0 over a different value,
\* has just been popped and slot 0 still holds it.
C17_Witness ==
  /\ QueueLive
  /\ q_capacity > 1
  /\ call.op = "pop"
  /\ call.ret
  /\ pushed_ok = 1
  /\ q_empty
  /\ q_begin = 1
  /\ Load(q_data, 0) = "y"

\* C14: for every capacity from 0 up, storage_size(capacity) is the sum of
\* the header field widths (queue: signature + begin + end + size; vector:
\* signature + size) plus capacity * sizeof(value_type), with no padding: the
\* header part ends where the last header field ends, slot i sits at
\* header bytes + i * sizeof(value_type), and storage_size(capacity) is the
\* offset one past the last slot.
C14_StorageSizeExact ==
  /\ QueueLive =>
       \A c \in 0 .. q_capacity :
         /\ q_storage_size(c) = QHeaderEnd + c * SizeofValue
         /\ q_storage_size(c) = q_slot_offset(c)
         /\ \A i \in 0 .. (c - 1) :
              /\ q_slot_offset(i) = QHeaderEnd + i * SizeofValue
              /\ QSlotBytes(i) \subseteq FieldBytes(QHeaderEnd, q_storage_size(c) - QHeaderEnd)
  /\ VectorLive =>
       \A c \in 0 .. v_capacity :
         /\ v_storage_size(c) = VHeaderEnd + c * SizeofValue
         /\ v_storage_size(c) = v_slot_offset(c)
         /\ \A i \in 0 .. (c - 1) :
              /\ v_slot_offset(i) = VHeaderEnd + i * SizeofValue
              /\ VSlotBytes(i) \subseteq FieldBytes(VHeaderEnd, v_storage_size(c) - VHeaderEnd)

\* C14 witness: a full queue of capacity > 1 whose last slot ends at
\* storage_size(capacity).
C14_Witness ==
  /\ QueueLive
  /\ q_capacity > 1
  /\ q_full
  /\ q_slot_offset(q_capacity - 1) + SizeofValue = q_storage_size(q_capacity)
  /\ q_storage_size(0) < q_storage_size(q_capacity)

C11_SignatureIffMounted ==
  /\ sketch = "queue" => (q_signature = SIGNATURE <=> q_mounted)
  /\ sketch = "vector" => (v_signature = SIGNATURE <=> v_mounted)

\* C11 (amended): for any initial bytes of the region, once the region has
\* been mounted its signature is the magic constant; and if the signature
\* word the region starts with is not the magic constant, then at every point
\* the signature is the magic constant if and only if the region has been
\* mounted at least once.
C11_SignatureAfterMount ==
  /\ [](/\ QueueLive => q_signature = SIGNATURE
        /\ VectorLive => v_signature = SIGNATURE)
  /\ (sketch = "queue" /\ q_signature # SIGNATURE) =>
       [](q_signature = SIGNATURE <=> q_mounted)
  /\ (sketch = "vector" /\ v_signature # SIGNATURE) =>
       [](v_signature = SIGNATURE <=> v_mounted)

\* C11 witness: a queue mounted over a region that already carried the magic
\* constant: the handle took over a size above its capacity.
C11_Witness ==
  /\ QueueLive
  /\ call.op = "q_mount"
  /\ q_signature = SIGNATURE
  /\ q_capacity > 0
  /\ q_size_fn > q_capacity

\* C12: 0 <= size() <= capacity() holds at every point of every handle a
\* mount returns, a handle mounted over an initialized region with another
\* capacity than the region was filled under included, and after any further
\* push / pop (push_back / pop_back) on it.
C12_SizeBoundEveryHandle ==
  /\ QueueLive => (0 <= q_size_fn /\ q_size_fn <= q_capacity_fn)
  /\ VectorLive => (0 <= v_size_fn /\ v_size_fn <= v_capacity_fn)


\* C13: there is no atomic multi-field commit.  When a push or pop has lost
\* power between two of its writes, the region can hold a matching signature
\* with end # (begin + size) mod capacity; the constructor run at the next
\* start with the same capacity accepts that region as it is: it writes
\* nothing, the header is still inconsistent afterwards and the handle is
\* usable.
C13_MountAcceptsInconsistent ==
  [][(/\ call.op \in {"push_cut_end", "pop_cut_begin"}
      /\ call'.op = "q_mount"
      /\ q_signature = SIGNATURE
      /\ ~QHeaderConsistent)
     => (/\ UNCHANGED <<q_region, q_capacity>>
         /\ q_mounted'
         /\ ~QHeaderConsistent')]_vars

C13_Witness ==
  /\ QueueLive
  /\ call.op = "q_mount"
  /\ q_signature = SIGNATURE
  /\ q_capacity > 0
  /\ q_size <= q_capacity
  /\ q_begin < q_capacity
  /\ q_end < q_capacity
  /\ q_end # (q_begin + q_size) % q_capacity
  /\ pushed_ok > 0


\* C19: vector operations are atomic with respect to power loss.  push_back
\* writes the slot before size, and pop_back has a single write, so the only
\* point between two writes is after push_back's slot write.  A push_back
\* that loses power there leaves size <= capacity and logical contents equal
\* to the contents before it or to the contents after it; the constructor run
\* at the next start with the same capacity changes nothing, and the vector it
\* presents holds the contents before the interrupted push_back.
C19_VectorCutAtomic ==
  [][/\ (call'.op = "push_back_cut")
          => /\ v_size' <= v_capacity'
             /\ \/ VContents' = VContents
                \/ VContents' = Append(VContents, call'.arg)
     /\ (call.op = "push_back_cut" /\ call'.op = "v_mount")
          => /\ UNCHANGED <<v_region, v_capacity>>
             /\ v_mounted'
             /\ v_size' <= v_capacity'
             /\ VContents' = v_model']_vars

C19_Witness ==
  /\ sketch = "vector"
  /\ ~v_mounted
  /\ call.op = "push_back_cut"
  /\ v_size > 0
  /\ v_size < v_capacity
  /\ Load(v_data, v_size) = call.arg
  /\ Load(v_data, v_size - 1) # call.arg


\* C20, as stated: a push or pop that loses power between any two of its
\* writes leaves logical contents equal to the FIFO contents before it or to
\* those after it, and no successful push writes into a slot inside the
\* occupied circular range.
C20_QueueCutBeforeOrAfter ==
  [][/\ (call'.op \in {"push_cut_slot", "push_cut_end"})
          => \/ QContents' = QContents
             \/ QContents' = Append(QContents, call'.arg)
     /\ (call'.op = "pop_cut_begin")
          => \/ QContents' = QContents
             \/ QContents' = Tail(QContents)
     /\ (call'.op = "push" /\ call'.ret)
          => q_end \notin QOccupied]_vars

\* C20, amended: a push that loses power between two of its writes while the
\* header is consistent leaves the logical contents equal to the FIFO contents
\* before it, and the constructor at the next start with the same capacity
\* changes nothing; if power was lost between the slot write and the end
\* update the header is still consistent; and a successful push on a
\* consistent header never writes into a slot inside the occupied circular
\* range.
C20_QueueCutFromConsistent ==
  [][/\ (call'.op \in {"push_cut_slot", "push_cut_end"} /\ QHeaderConsistent)
          => QContents' = QContents
     /\ (call'.op = "push_cut_slot" /\ QHeaderConsistent)
          => QHeaderConsistent'
     /\ (/\ call.op \in {"push_cut_slot", "push_cut_end"}
         /\ call'.op = "q_mount")
          => (UNCHANGED <<q_region, q_capacity>> /\ QContents' = QContents)
     /\ (call'.op = "push" /\ call'.ret /\ QHeaderConsistent)
          => (q_end \notin QOccupied /\ QHeaderConsistent')]_vars

C20_Witness ==
  /\ sketch = "queue"
  /\ ~q_mounted
  /\ call.op = "push_cut_slot"
  /\ QHeaderConsistent
  /\ q_size > 0
  /\ q_end < q_begin
  /\ Load(q_data, q_end) = call.arg
  /\ QContents = q_model
  /\ popped_ok > 0

=============================================================================
